---- MODULE Spec2Model ----
(***************************************************************************)
(* A model of pontos' changelog handling (pontos/changelog/changelog.py)   *)
(* and of the release workflow that consumes it (pontos/release/release.py)*)
(*                                                                         *)
(* Text is modelled as a sequence of one-character strings, so that the    *)
(* regular expressions of the scanner and the substitutions of update act  *)
(* on single characters exactly as Python's re module does.                *)
(***************************************************************************)
EXTENDS Integers, Sequences, FiniteSets, TLC

(***************************************************************************)
(* Bounds of the model.                                                    *)
(***************************************************************************)
\* the largest number of lines of a document handed to Changelog.update
MaxLines == 3
\* the largest number of lines of the CHANGELOG.md file read by release()
MaxFileLines == 2

(***************************************************************************)
(* Characters and words.                                                   *)
(***************************************************************************)
NL == "\n"
HASH == "#"

W_Unreleased == <<"U", "n", "r", "e", "l", "e", "a", "s", "e", "d">>
W_unreleased == <<"u", "n", "r", "e", "l", "e", "a", "s", "e", "d">>
W_UNRELEASED == <<"U", "N", "R", "E", "L", "E", "A", "S", "E", "D">>
W_master == <<"m", "a", "s", "t", "e", "r">>
W_Added == <<" ", "A", "d", "d", "e", "d">>
W_Changed == <<" ", "C", "h", "a", "n", "g", "e", "d">>
W_Deprecated == <<" ", "D", "e", "p", "r", "e", "c", "a", "t", "e", "d">>
W_Removed == <<" ", "R", "e", "m", "o", "v", "e", "d">>
W_Fixed == <<" ", "F", "i", "x", "e", "d">>
W_Security == <<" ", "S", "e", "c", "u", "r", "i", "t", "y">>

\* str.lower() on the letters of "unreleased"; every other character of the
\* model's alphabet has no other case or is already in lower case
Lower(c) ==
    CASE c = "U" -> "u"
      [] c = "N" -> "n"
      [] c = "R" -> "r"
      [] c = "E" -> "e"
      [] c = "L" -> "l"
      [] c = "A" -> "a"
      [] c = "S" -> "s"
      [] c = "D" -> "d"
      [] OTHER -> c

\* s[i..] starts with the word w
IsPrefixAt(s, i, w) ==
    /\ i >= 1
    /\ i + Len(w) - 1 <= Len(s)
    /\ \A k \in 1..Len(w) : s[i + k - 1] = w[k]

\* s[i..] starts with the word w, letter case ignored (re.IGNORECASE)
IsPrefixAtIgnoreCase(s, i, w) ==
    /\ i >= 1
    /\ i + Len(w) - 1 <= Len(s)
    /\ \A k \in 1..Len(w) : Lower(s[i + k - 1]) = Lower(w[k])

\* Python's `w in s` on strings
Contains(s, w) == \E i \in 1..(Len(s) + 1) : IsPrefixAt(s, i, w)

\* str.count(c) for a single character c
CountChar(s, c) == Cardinality({i \in 1..Len(s) : s[i] = c})

\* the index just past the greedy match of `.*` started at i: `.` matches
\* every character but the newline
LineEnd(s, i) ==
    IF \E j \in i..Len(s) : s[j] = NL
    THEN CHOOSE j \in i..Len(s) : s[j] = NL /\ \A k \in i..(j - 1) : s[k] # NL
    ELSE Len(s) + 1

\* the number of '#' characters `#{1,}` takes greedily at i
HashRun(s, i) ==
    IF \E j \in i..Len(s) : s[j] # HASH
    THEN (CHOOSE j \in i..Len(s) : s[j] # HASH /\ \A k \in i..(j - 1) : s[k] = HASH) - i
    ELSE Len(s) + 1 - i

\* s[i..j-1]
Slice(s, i, j) == SubSeq(s, i, j - 1)

(***************************************************************************)
(* The scanner of Changelog.__build_scanner: an ordered lexicon; the       *)
(* first rule that matches at the current position wins.                   *)
(* Each Match operator gives the index just past the match, or 0.          *)
(***************************************************************************)
\* r'#{1,} Added' and its five siblings: the hashes, then the literal word
MatchKeyword(s, i, w) ==
    LET n == HashRun(s, i)
    IN  IF n >= 1 /\ IsPrefixAt(s, i + n, w) THEN i + n + Len(w) ELSE 0

\* the rule with a capital U only: r'#{1,}.*(?=Unreleased).*'
MatchUnreleasedCapitalOnly(s, i) ==
    LET e == LineEnd(s, i)
    IN  IF /\ i <= Len(s)
           /\ s[i] = HASH
           /\ \E p \in (i + 1)..(e - 1) : IsPrefixAt(s, p, W_Unreleased)
        THEN e
        ELSE 0

\* r'#{1,}.*(?=[Uu]nreleased).*'
MatchUnreleased(s, i) ==
    LET e == LineEnd(s, i)
    IN  IF /\ i <= Len(s)
           /\ s[i] = HASH
           /\ \E p \in (i + 1)..(e - 1) :
                 \/ IsPrefixAt(s, p, W_Unreleased)
                 \/ IsPrefixAt(s, p, W_unreleased)
        THEN e
        ELSE 0

\* r'\[[Uu]nreleased\].*'
MatchUnreleasedLink(s, i) ==
    IF \/ IsPrefixAt(s, i, <<"[">> \o W_Unreleased \o <<"]">>)
       \/ IsPrefixAt(s, i, <<"[">> \o W_unreleased \o <<"]">>)
    THEN LineEnd(s, i)
    ELSE 0

\* r'#{1,} .*'
MatchHeading(s, i) ==
    LET n == HashRun(s, i)
    IN  IF n >= 1 /\ IsPrefixAt(s, i + n, <<" ">>) THEN LineEnd(s, i) ELSE 0

\* a lexicon whose newline rule never matches
MatchNewlineNever(s, i) == 0

\* r'\n'
MatchNewline(s, i) == IF i <= Len(s) /\ s[i] = NL THEN i + 1 ELSE 0

\* r'..*'
MatchAny(s, i) == IF i <= Len(s) /\ s[i] # NL THEN LineEnd(s, i) ELSE 0

\* the lexicon, in the order of the list given to re.Scanner
Lexicon ==
    << "added", "changed", "deprecated", "removed", "fixed", "security",
       "unreleased", "unreleased_link", "heading", "newline", "any" >>

MatchRule(key, s, i) ==
    CASE key = "added" -> MatchKeyword(s, i, W_Added)
      [] key = "changed" -> MatchKeyword(s, i, W_Changed)
      [] key = "deprecated" -> MatchKeyword(s, i, W_Deprecated)
      [] key = "removed" -> MatchKeyword(s, i, W_Removed)
      [] key = "fixed" -> MatchKeyword(s, i, W_Fixed)
      [] key = "security" -> MatchKeyword(s, i, W_Security)
      [] key = "unreleased" -> MatchUnreleased(s, i)
      [] key = "unreleased_link" -> MatchUnreleasedLink(s, i)
      [] key = "heading" -> MatchHeading(s, i)
      [] key = "newline" -> MatchNewline(s, i)
      [] key = "any" -> MatchAny(s, i)

\* token_handler(key): the lambda's result (key, token.count('#'), token)
token_handler(key, token) ==
    [tt |-> key, heading_count |-> CountChar(token, HASH), tc |-> token]

\* re.Scanner.scan: match at the current position, the first alternative
\* of the lexicon that matches wins; stop where nothing matches and give
\* back the tokens and the unscanned remainder
RECURSIVE ScanFrom(_, _, _)
ScanFrom(s, i, toks) ==
    LET hits == {r \in 1..Len(Lexicon) : MatchRule(Lexicon[r], s, i) > 0}
    IN  IF hits = {}
        THEN [toks |-> toks, remainder |-> Slice(s, i, Len(s) + 1)]
        ELSE LET r == CHOOSE x \in hits : \A y \in hits : x <= y
                 j == MatchRule(Lexicon[r], s, i)
             IN  ScanFrom(s, j, Append(toks, token_handler(Lexicon[r], Slice(s, i, j))))

scan(s) == ScanFrom(s, 1, <<>>)

(***************************************************************************)
(* The substitutions of Changelog.update.                                  *)
(***************************************************************************)
\* re.sub of a literal word: the non-overlapping matches, left to right,
\* are replaced by repl (repl holds no backslash, so it is taken literally)
RECURSIVE SubWord(_, _, _, _, _)
SubWord(w, ignorecase, repl, s, i) ==
    IF i > Len(s)
    THEN <<>>
    ELSE IF (IF ignorecase THEN IsPrefixAtIgnoreCase(s, i, w) ELSE IsPrefixAt(s, i, w))
         THEN repl \o SubWord(w, ignorecase, repl, s, i + Len(w))
         ELSE <<s[i]>> \o SubWord(w, ignorecase, repl, s, i + 1)

\* __unreleased_matcher = re.compile("unreleased", re.IGNORECASE); .sub
unreleased_matcher_sub(repl, s) == SubWord(W_unreleased, TRUE, repl, s, 1)

\* __master_matcher = re.compile("master"); .sub
master_matcher_sub(repl, s) == SubWord(W_master, FALSE, repl, s, 1)

\* date.today().isoformat()
TodayIso == <<"2", "0", "2", "0", "-", "0", "7", "-", "0", "1">>

\* a start condition that forgets containing_version
StartConditionAny(cv, text) == TRUE

\* (containing_version and containing_version in tc) or not containing_version
\* None and '' are both the empty sequence here: the code only tests truth
StartCondition(cv, text) == (cv # <<>> /\ Contains(text, cv)) \/ cv = <<>>

\* the heading rewritten by a matcher compiled without re.IGNORECASE
RewriteHeadingCaseSensitive(nv, text) ==
    SubWord(W_unreleased, FALSE, nv, text, 1) \o <<" ", "-", " ">> \o TodayIso

\* tc = sub(new_version, tc); tc += " - {}".format(date.today().isoformat())
RewriteHeading(nv, text) ==
    unreleased_matcher_sub(nv, text) \o <<" ", "-", " ">> \o TodayIso

\* the link rewritten with 'master' replaced by new_version without the prefix
RewriteLinkNoPrefix(nv, prefix, text) ==
    master_matcher_sub(nv, unreleased_matcher_sub(nv, text))

\* tc = unreleased.sub(new_version, tc); tc = master.sub(prefix + new_version, tc)
RewriteLink(nv, prefix, text) ==
    master_matcher_sub(prefix \o nv, unreleased_matcher_sub(nv, text))

\* elif heading_count > 0 and hc > 0 and heading_count <= hc
EndsSection(count, depth) == count > 0 /\ depth > 0 /\ count <= depth

\* an update that substitutes new_version in every token that opens no section
EmittedTextSubstitutesAll(tok, cv, nv, prefix) ==
    LET start == tok.tt = "unreleased" /\ StartCondition(cv, tok.tc)
        tc1 == IF nv = <<>> THEN tok.tc
               ELSE IF start THEN RewriteHeading(nv, tok.tc)
               ELSE unreleased_matcher_sub(nv, tok.tc)
    IN  IF tok.tt = "unreleased_link" /\ nv # <<>>
        THEN RewriteLink(nv, prefix, tc1)
        ELSE tc1

\* tc as one iteration of the loop leaves it (lines 59-73): the heading
\* rewritten when it opens a section, the link rewritten, with a new_version
EmittedText(tok, cv, nv, prefix) ==
    LET start == tok.tt = "unreleased" /\ StartCondition(cv, tok.tc)
        tc1 == IF start /\ nv # <<>> THEN RewriteHeading(nv, tok.tc) ELSE tok.tc
    IN  IF tok.tt = "unreleased_link" /\ nv # <<>>
        THEN RewriteLink(nv, prefix, tc1)
        ELSE tc1

\* a return that hands out the updated document whatever the changelog is
ReturnValueAlways(md, upd, cl) == <<md, upd, cl>>

\* the tuple update returns
ReturnValue(md, upd, cl) == <<md, IF cl # <<>> THEN upd ELSE <<>>, cl>>

(***************************************************************************)
(* Documents.                                                              *)
(***************************************************************************)
L_Unreleased == <<"#", "#", " ">> \o W_Unreleased
L_unreleased9 == <<"#", "#", " ">> \o W_unreleased \o <<" ", "9">>
L_UPPER == <<"#", " ">> \o W_UNRELEASED
L_Added == <<"#", "#", "#">> \o W_Added
L_Sibling == <<"#", "#", " ", "1", ".", "0">>
L_Prose == <<"-", " ">> \o W_unreleased \o <<" ", "#", "7">>
L_Link == <<"[">> \o W_Unreleased \o <<"]", ":", " ">> \o W_master
L_Plain == <<"o", "l", "d">>

Lines ==
    { L_Unreleased, L_unreleased9, L_UPPER, L_Added, L_Sibling, L_Prose,
      L_Link, L_Plain }

RECURSIVE Join(_)
Join(ls) ==
    IF Len(ls) = 0 THEN <<>>
    ELSE IF Len(ls) = 1 THEN ls[1]
    ELSE ls[1] \o <<NL>> \o Join(Tail(ls))

\* the documents of at most n lines
Docs(n) == {Join(ls) : ls \in UNION {[1..k -> Lines] : k \in 1..n}}

Versions == {<<>>, <<"1", ".", "2">>}
ContainingVersions == {<<>>, <<"9">>}
Prefixes == {<<"v">>, <<>>}

(***************************************************************************)
(* State.                                                                  *)
(***************************************************************************)
VARIABLES
    markdown,                \* Changelog._markdown
    git_tag_prefix,          \* Changelog._git_tag_prefix
    new_version,             \* argument of update
    containing_version,      \* argument of update
    tokens,                  \* the result of _tokenize
    remainder,               \* what scan left unrecognized
    idx,                     \* the number of tokens the loop has consumed
    tt, heading_count, tc,   \* the loop variables, after the iteration
    hc,                      \* depth of the open Unreleased section, 0 if none
    changelog,               \* the extracted changelog so far
    updated_markdown,        \* the updated document so far
    may_changelog_relevant,  \* FALSE once the section has ended
    result,                  \* the tuple update returned
    pc,                      \* position in update
    rpc,                     \* position in release(), "none" outside a release
    changelog_file,          \* the text of CHANGELOG.md
    release_version,         \* argument of release
    dry_run,                 \* argument of release
    executed, filename,      \* what version.main returned
    updated, changelog_text, \* what changelog.update returned to release
    git_log,                 \* the git commands that ran, in order
    posted,                  \* the release dict POSTed, NoPost if none
    status_code,             \* the status of the POST's response, 0 if none
    ret                      \* what release returned, "none" if it has not

updateVars ==
    << markdown, git_tag_prefix, new_version, containing_version, tokens,
       remainder, idx, tt, heading_count, tc, hc, changelog,
       updated_markdown, may_changelog_relevant, result, pc >>

releaseVars ==
    << rpc, changelog_file, release_version, dry_run, executed, filename,
       updated, changelog_text, git_log, posted, status_code, ret >>

vars == << updateVars, releaseVars >>

NoPost == [tag_name |-> <<>>, body |-> <<>>, none |-> TRUE]

NoResult == <<"none">>

\* the locals of update before the loop (lines 54-57)
UpdateLocalsInit ==
    /\ tokens = <<>>
    /\ remainder = <<>>
    /\ idx = 0
    /\ tt = "none"
    /\ heading_count = 0
    /\ tc = <<>>
    /\ hc = 0
    /\ changelog = <<>>
    /\ updated_markdown = <<>>
    /\ may_changelog_relevant = TRUE
    /\ result = NoResult

\* the locals of release() and commit_changes before they are assigned
ReleaseLocalsInit ==
    /\ executed = FALSE
    /\ filename = ""
    /\ updated = <<>>
    /\ changelog_text = <<>>
    /\ git_log = <<>>
    /\ posted = NoPost
    /\ status_code = 0
    /\ ret = "none"

\* Changelog(markdown, git_tag_prefix).update(new_version, containing_version)
Init ==
    /\ markdown \in Docs(MaxLines)
    /\ git_tag_prefix \in Prefixes
    /\ new_version \in Versions
    /\ containing_version \in ContainingVersions
    /\ UpdateLocalsInit
    /\ pc = "tokenize"
    /\ rpc = "none"
    /\ changelog_file = <<>>
    /\ release_version = <<>>
    /\ dry_run = FALSE
    /\ ReleaseLocalsInit

\* tokens = self._tokenize()
Tokenize ==
    /\ pc = "tokenize"
    /\ LET r == scan(markdown)
       IN  /\ tokens' = r.toks
           /\ remainder' = r.remainder
    /\ pc' = "loop"
    /\ UNCHANGED << markdown, git_tag_prefix, new_version, containing_version,
                    idx, tt, heading_count, tc, hc, changelog,
                    updated_markdown, may_changelog_relevant, result >>
    /\ UNCHANGED releaseVars

\* one iteration of `for tt, heading_count, tc in tokens`
LoopStep ==
    /\ pc = "loop"
    /\ idx < Len(tokens)
    /\ LET tok == tokens[idx + 1]
           start == tok.tt = "unreleased"
                      /\ StartCondition(containing_version, tok.tc)
           tc2 == EmittedText(tok, containing_version, new_version, git_tag_prefix)
           hc1 == IF start THEN tok.heading_count ELSE hc
           mcr == IF tok.tt # "unreleased" /\ EndsSection(tok.heading_count, hc)
                  THEN FALSE
                  ELSE may_changelog_relevant
       IN  /\ tt' = tok.tt
           /\ heading_count' = tok.heading_count
           /\ tc' = tc2
           /\ hc' = hc1
           /\ may_changelog_relevant' = mcr
           /\ updated_markdown' = updated_markdown \o tc2
           /\ changelog' = IF mcr /\ hc1 > 0 THEN changelog \o tc2 ELSE changelog
    /\ idx' = idx + 1
    /\ UNCHANGED << markdown, git_tag_prefix, new_version, containing_version,
                    tokens, remainder, result, pc >>
    /\ UNCHANGED releaseVars

\* return (self._markdown, updated_markdown if changelog else "", changelog)
Return ==
    /\ pc = "loop"
    /\ idx = Len(tokens)
    /\ result' = ReturnValue(markdown, updated_markdown, changelog)
    /\ pc' = "done"
    /\ UNCHANGED << markdown, git_tag_prefix, new_version, containing_version,
                    tokens, remainder, idx, tt, heading_count, tc, hc,
                    changelog, updated_markdown, may_changelog_relevant >>
    /\ UNCHANGED releaseVars

Next == Tokenize \/ LoopStep \/ Return

Spec == Init /\ [][Next]_vars

(***************************************************************************)
(* The release workflow of pontos/release/release.py.                      *)
(***************************************************************************)
ReleaseVersions == {<<"1", ".", "2">>}
ProjectFile == "pyproject.toml"

\* str.startswith
StartsWith(s, w) == IsPrefixAt(s, 1, w)

\* build_release_dict(release_version, release_changelog): the fields that
\* depend on its arguments
build_release_dict(version, release_changelog) ==
    [ tag_name |-> IF StartsWith(version, <<"v">>) THEN version ELSE <<"v">> \o version,
      body |-> release_changelog,
      none |-> FALSE ]

\* git_version = "{}{}".format(self.tag_prefix, release_version)
git_version == git_tag_prefix \o release_version

\* changelog.update(text, release_version, project, git_tag_prefix=...,
\* git_space=...): the module-level function builds a Changelog of the text
\* and hands back the updated document and the extracted changelog
changelog_update_result(r) == <<r[2], r[3]>>

\* release(release_version, nextversion, project, space, username, token,
\*         dry_run, git_tag_prefix) in the directory of CHANGELOG.md
InitRelease ==
    /\ changelog_file \in Docs(MaxFileLines)
    /\ release_version \in ReleaseVersions
    /\ dry_run \in BOOLEAN
    /\ git_tag_prefix \in Prefixes
    /\ markdown = <<>>
    /\ new_version = <<>>
    /\ containing_version = <<>>
    /\ UpdateLocalsInit
    /\ pc = "idle"
    /\ rpc = "start"
    /\ ReleaseLocalsInit

\* executed, filename = version.main(...); sys.exit(2) if not executed
VersionUpdate ==
    /\ rpc = "start"
    /\ \E ex \in BOOLEAN, fn \in {"", ProjectFile} :
          /\ ex => fn # ""
          /\ executed' = ex
          /\ filename' = fn
          /\ rpc' = IF ex THEN "read_changelog" ELSE "exit2"
    /\ UNCHANGED << updateVars, changelog_file, release_version, dry_run,
                    updated, changelog_text, git_log, posted, status_code, ret >>

\* changelog.update(change_log_path.read_text(), release_version, ...)
CallChangelogUpdate ==
    /\ rpc = "read_changelog"
    /\ markdown' = changelog_file
    /\ new_version' = release_version
    /\ containing_version' = <<>>
    /\ pc' = "tokenize"
    /\ rpc' = "in_update"
    /\ UNCHANGED << git_tag_prefix, tokens, remainder, idx, tt, heading_count,
                    tc, hc, changelog, updated_markdown,
                    may_changelog_relevant, result >>
    /\ UNCHANGED << changelog_file, release_version, dry_run, executed,
                    filename, updated, changelog_text, git_log, posted,
                    status_code, ret >>

\* updated, changelog_text = ...; change_log_path.write_text(updated);
\* if not dry_run: ... commit_changes(...) else return True
WriteChangelog ==
    /\ rpc = "in_update"
    /\ pc = "done"
    /\ LET r == changelog_update_result(result)
       IN  /\ updated' = r[1]
           /\ changelog_text' = r[2]
           /\ changelog_file' = r[1]
    /\ IF dry_run
       THEN rpc' = "returned" /\ ret' = "True"
       ELSE rpc' = "git_add_project" /\ ret' = ret
    /\ UNCHANGED << updateVars, release_version, dry_run, executed, filename,
                    git_log, posted, status_code >>

\* subprocess.run without check=True: a failed command is passed over
RunGitUnchecked(here, cmd, there) ==
    /\ rpc = here
    /\ \E ok \in BOOLEAN :
          /\ git_log' = IF ok THEN Append(git_log, cmd) ELSE git_log
          /\ rpc' = there
    /\ UNCHANGED << updateVars, changelog_file, release_version, dry_run,
                    executed, filename, updated, changelog_text, posted,
                    status_code, ret >>

\* subprocess.run(cmd, shell=True, check=True): the command runs and the
\* method goes on, or it fails and CalledProcessError leaves the method
RunGit(here, cmd, there) ==
    /\ rpc = here
    /\ \E ok \in BOOLEAN :
          IF ok
          THEN git_log' = Append(git_log, cmd) /\ rpc' = there
          ELSE git_log' = git_log /\ rpc' = "raised"
    /\ UNCHANGED << updateVars, changelog_file, release_version, dry_run,
                    executed, filename, updated, changelog_text, posted,
                    status_code, ret >>

GitAddProject ==
    RunGit("git_add_project", [cmd |-> "add", arg |-> filename], "git_add_changelog")

GitAddChangelog ==
    RunGit("git_add_changelog", [cmd |-> "add", arg |-> "CHANGELOG.md"], "git_commit")

GitCommit ==
    RunGit("git_commit", [cmd |-> "commit", arg |-> release_version], "git_tag")

GitTag ==
    RunGit("git_tag", [cmd |-> "tag", arg |-> git_version], "git_push")

GitPush ==
    RunGit("git_push", [cmd |-> "push", arg |-> "--follow-tags"], "post")

\* requests.post(base_url, ..., json=release_info) and the status check
PostRelease ==
    /\ rpc = "post"
    /\ posted' = build_release_dict(git_version, changelog_text)
    /\ \E st \in {201, 422} :
          /\ status_code' = st
          /\ ret' = IF st # 201 THEN "False" ELSE "True"
    /\ rpc' = "returned"
    /\ UNCHANGED << updateVars, changelog_file, release_version, dry_run,
                    executed, filename, updated, changelog_text, git_log >>

NextRelease ==
    \/ VersionUpdate
    \/ CallChangelogUpdate
    \/ Tokenize
    \/ LoopStep
    \/ Return
    \/ WriteChangelog
    \/ GitAddProject
    \/ GitAddChangelog
    \/ GitCommit
    \/ GitTag
    \/ GitPush
    \/ PostRelease

SpecRelease == InitRelease /\ [][NextRelease]_vars

(***************************************************************************)
(* Vocabulary of the properties.                                           *)
(***************************************************************************)
RECURSIVE Flatten(_)
Flatten(ss) == IF ss = <<>> THEN <<>> ELSE Head(ss) \o Flatten(Tail(ss))

\* the raw texts of tokens a..b of the scan, concatenated
RawTexts(a, b) == Flatten([k \in 1..(b - a + 1) |-> tokens[a + k - 1].tc])

EndsWith(s, w) ==
    Len(w) <= Len(s) /\ SubSeq(s, Len(s) - Len(w) + 1, Len(s)) = w

ContainsIgnoreCase(s, w) == \E i \in 1..(Len(s) + 1) : IsPrefixAtIgnoreCase(s, i, w)

\* where the word w occurs in s
Occurrences(s, w, ignorecase) ==
    { i \in 1..Len(s) :
        IF ignorecase THEN IsPrefixAtIgnoreCase(s, i, w) ELSE IsPrefixAt(s, i, w) }

\* s with every occurrence of "unreleased" (any letter case) replaced by ru
\* and every occurrence of "master" replaced by rm, in one pass
Replaced(s, ru, rm) ==
    LET pu == Occurrences(s, W_unreleased, TRUE)
        pm == Occurrences(s, W_master, FALSE)
        inside(i) == \/ \E q \in pu : q < i /\ i < q + Len(W_unreleased)
                     \/ \E q \in pm : q < i /\ i < q + Len(W_master)
    IN  Flatten([i \in 1..Len(s) |->
                    IF i \in pu THEN ru
                    ELSE IF i \in pm THEN rm
                    ELSE IF inside(i) THEN <<>>
                    ELSE <<s[i]>>])

\* the heading as the changelog of a release shows it
ExpectedHeading(text) ==
    IF new_version # <<>>
    THEN Replaced(text, new_version, W_master) \o <<" ", "-", " ">> \o TodayIso
    ELSE text

\* the link line as the changelog of a release shows it
ExpectedLink(text) ==
    IF new_version # <<>>
    THEN Replaced(text, new_version, git_tag_prefix \o new_version)
    ELSE text

Scanned == pc \in {"loop", "done"}
\* _tokenize has returned and the loop has not begun
JustScanned == pc = "loop" /\ idx = 0
Stepped == Scanned /\ idx >= 1

\* token k is an 'unreleased' token that satisfies the start condition
IsStart(k) ==
    /\ tokens[k].tt = "unreleased"
    /\ \/ containing_version = <<>>
       \/ Contains(tokens[k].tc, containing_version)

Starts == {k \in 1..Len(tokens) : IsStart(k)}
FirstStart == CHOOSE k \in Starts : \A j \in Starts : k <= j

FirstLine(s) == Slice(s, 1, LineEnd(s, 1))

HeadingKinds ==
    { "added", "changed", "deprecated", "removed", "fixed", "security",
      "unreleased", "heading" }

\* the number of leading '#' characters of a text
LeadingHashes(text) == HashRun(text, 1)

(***************************************************************************)
(* C1: when no 'unreleased' token satisfies the start condition, update    *)
(* returns the input verbatim, an empty updated document and an empty      *)
(* changelog; a section is only ever opened by such a token, so the word   *)
(* 'unreleased' in a line that is no heading opens none.                   *)
(***************************************************************************)
C1_NoSectionGivesEmpty ==
    /\ (pc = "done" /\ Starts = {}) => result = <<markdown, <<>>, <<>>>>
    /\ (Scanned /\ (hc > 0 \/ changelog # <<>>)) =>
          \E k \in 1..idx : IsStart(k) /\ tokens[k].tc[1] = HASH

Wit_C1 ==
    /\ pc = "done"
    /\ Starts = {}
    /\ new_version # <<>>
    /\ \E k \in 1..Len(tokens) :
          tokens[k].tt = "any" /\ Contains(tokens[k].tc, W_unreleased)
    /\ result = <<markdown, <<>>, <<>>>>

(***************************************************************************)
(* C2: with a new_version, the heading that starts the section is emitted  *)
(* with every occurrence of 'unreleased', in any letter case, replaced by  *)
(* new_version and ' - <today>' appended; it is in the updated document    *)
(* and is the first line of the extracted changelog. Without a new_version *)
(* the heading is emitted as it was.                                       *)
(***************************************************************************)
C2_HeadingRewritten ==
    /\ (Stepped /\ IsStart(idx)) =>
          /\ tc = ExpectedHeading(tokens[idx].tc)
          /\ EndsWith(updated_markdown, tc)
          /\ idx = FirstStart => changelog = tc
    /\ (pc = "done" /\ Starts # {}) =>
          /\ FirstLine(result[3]) = ExpectedHeading(tokens[FirstStart].tc)
          /\ Contains(result[2], ExpectedHeading(tokens[FirstStart].tc))

Wit_C2 ==
    /\ pc = "done"
    /\ markdown = L_Unreleased \o <<NL>> \o L_Plain
    /\ new_version = <<"1", ".", "2">>
    /\ result[3] = <<"#", "#", " ", "1", ".", "2", " ", "-", " ">> \o TodayIso
                      \o <<NL>> \o L_Plain

(***************************************************************************)
(* C3: with a new_version, every '[Unreleased]...' link token is emitted   *)
(* with 'Unreleased' replaced by new_version and 'master' replaced by      *)
(* git_tag_prefix followed by new_version; without one it is emitted as    *)
(* it was.                                                                 *)
(***************************************************************************)
C3_LinkRewritten ==
    /\ (Stepped /\ tokens[idx].tt = "unreleased_link") =>
          /\ tc = ExpectedLink(tokens[idx].tc)
          /\ EndsWith(updated_markdown, tc)
    /\ (pc = "done" /\ result[2] # <<>>) =>
          \A k \in 1..Len(tokens) :
             tokens[k].tt = "unreleased_link" =>
                Contains(result[2], ExpectedLink(tokens[k].tc))

Wit_C3 ==
    /\ pc = "done"
    /\ markdown = L_Unreleased \o <<NL>> \o L_Link
    /\ git_tag_prefix = <<"v">>
    /\ new_version = <<"1", ".", "2">>
    /\ EndsWith(result[2], <<NL, "[", "1", ".", "2", "]", ":", " ", "v", "1", ".", "2">>)

(***************************************************************************)
(* C4: the extracted changelog is the emitted texts of the tokens from the *)
(* first matched Unreleased heading, of depth d, up to but excluding the   *)
(* first later heading of any heading kind whose depth is <= d, or up to   *)
(* the end of the document.                                                *)
(***************************************************************************)
IsHeading(k) == tokens[k].tt \in HeadingKinds

\* the first heading after token k that is no deeper than token k, or one
\* past the last token
SectionEnd(k) ==
    LET closers == { j \in (k + 1)..Len(tokens) :
                        /\ IsHeading(j)
                        /\ LeadingHashes(tokens[j].tc) <= LeadingHashes(tokens[k].tc) }
    IN  IF closers = {} THEN Len(tokens) + 1
        ELSE CHOOSE j \in closers : \A x \in closers : j <= x

\* the text update emits for token k
ExpectedText(k) ==
    IF IsStart(k) THEN ExpectedHeading(tokens[k].tc)
    ELSE IF tokens[k].tt = "unreleased_link" THEN ExpectedLink(tokens[k].tc)
    ELSE tokens[k].tc

ExpectedTexts(a, b) == Flatten([k \in 1..(b - a + 1) |-> ExpectedText(a + k - 1)])

C4_SectionIsDepthBounded ==
    (pc = "done" /\ Starts # {}) =>
       result[3] = ExpectedTexts(FirstStart, SectionEnd(FirstStart) - 1)

(***************************************************************************)
(* C5: with a containing_version and two Unreleased-like headings of the   *)
(* same depth, one containing it and one not, only the section of the      *)
(* matching heading is extracted: the other heading is not rewritten and   *)
(* never appears in the extracted changelog, whichever comes first.        *)
(***************************************************************************)
C5_OnlyMatchingSection ==
    (pc = "done" /\ containing_version # <<>>) =>
       \A k, j \in 1..Len(tokens) :
          ( /\ IsStart(k)
            /\ tokens[j].tt = "unreleased"
            /\ ~IsStart(j)
            /\ LeadingHashes(tokens[j].tc) = LeadingHashes(tokens[k].tc)
            /\ \A x \in 1..Len(tokens) : tokens[x].tt = "unreleased" => x \in {k, j} )
          => /\ Contains(result[2], tokens[j].tc)
             /\ ~Contains(result[3], tokens[j].tc)

(***************************************************************************)
(* C6: the updated document update returns is empty exactly when the       *)
(* extracted changelog it returns is empty.                                *)
(***************************************************************************)
C6_BothOrNeither ==
    pc = "done" => ((result[2] = <<>>) <=> (result[3] = <<>>))

Wit_C6 ==
    /\ pc = "done"
    /\ result[3] # <<>>
    /\ result[2] # <<>>
    /\ Len(result[3]) < Len(result[2])

(***************************************************************************)
(* C7: the scanner consumes the whole document and the texts of its tokens *)
(* concatenate to the document; so update without a new_version returns,   *)
(* when a section matched, an updated document equal to the input.         *)
(***************************************************************************)
C7_Lossless ==
    /\ JustScanned =>
          /\ remainder = <<>>
          /\ RawTexts(1, Len(tokens)) = markdown
    /\ (pc = "done" /\ new_version = <<>> /\ Starts # {}) => result[2] = markdown

Wit_C7 ==
    /\ pc = "done"
    /\ new_version = <<>>
    /\ Starts # {}
    /\ Len(tokens) >= 5
    /\ result[2] = markdown

(***************************************************************************)
(* C9: the depth recorded for a token is its number of leading '#' for the *)
(* heading kinds and 0 for 'newline', 'any' and 'unreleased_link' tokens;  *)
(* so collection of the section only ends at a heading token.              *)
(***************************************************************************)
C9_DepthIsLeadingHashes ==
    /\ Stepped =>
       /\ tt \in HeadingKinds => heading_count = LeadingHashes(tokens[idx].tc)
       /\ tt \in {"newline", "any", "unreleased_link"} => heading_count = 0
    /\ (Scanned /\ ~may_changelog_relevant) =>
          \E j \in 1..idx : j > FirstStart /\ IsHeading(j)

(***************************************************************************)
(* C10: a line that starts with '#', is no Added/Changed/Deprecated/       *)
(* Removed/Fixed/Security heading and holds the word 'unreleased' after    *)
(* its hashes is scanned as one 'unreleased' token.                        *)
(***************************************************************************)
\* where token k starts in the document
Offset(k) == 1 + Len(RawTexts(1, k - 1))

\* the line of the document that starts at p
LineAt(p) == Slice(markdown, p, LineEnd(markdown, p))

LineStarts == {p \in 1..Len(markdown) : p = 1 \/ markdown[p - 1] = NL}

IsKeywordHeading(line) ==
    \E w \in {W_Added, W_Changed, W_Deprecated, W_Removed, W_Fixed, W_Security} :
       LeadingHashes(line) >= 1 /\ IsPrefixAt(line, LeadingHashes(line) + 1, w)

\* the line at p is scanned as a single token of kind 'unreleased'
ScannedAsUnreleased(p) ==
    \E k \in 1..Len(tokens) :
       /\ Offset(k) = p
       /\ tokens[k].tc = LineAt(p)
       /\ tokens[k].tt = "unreleased"

\* the claim as stated: the word in any letter case
C10_AnyCase ==
    JustScanned =>
       \A p \in LineStarts :
          ( /\ markdown[p] = HASH
            /\ ~IsKeywordHeading(LineAt(p))
            /\ ContainsIgnoreCase(LineAt(p), W_unreleased) )
          => ScannedAsUnreleased(p)

\* as amended: the word spelled 'Unreleased' or 'unreleased', and no other
\* spelling of it
C10_CapitalOrLower ==
    JustScanned =>
       \A p \in LineStarts :
          ( /\ markdown[p] = HASH
            /\ ~IsKeywordHeading(LineAt(p)) )
          => ( ScannedAsUnreleased(p)
                 <=> \/ Contains(LineAt(p), W_Unreleased)
                     \/ Contains(LineAt(p), W_unreleased) )

Wit_C10 ==
    /\ pc = "done"
    /\ markdown = L_UPPER \o <<NL>> \o L_unreleased9
    /\ tokens[1].tt = "heading"
    /\ tokens[3].tt = "unreleased"
    /\ result[3] = L_unreleased9

(***************************************************************************)
(* C8: when the changelog update hands release() the empty updated         *)
(* document and the empty changelog, release() leaves CHANGELOG.md as it   *)
(* was and runs no git command and no release POST.                        *)
(***************************************************************************)
UpdateHandedBack ==
    rpc \in { "git_add_project", "git_add_changelog", "git_commit", "git_tag",
              "git_push", "post", "returned", "raised" }

C8_EmptyUpdateReleasesNothing ==
    (UpdateHandedBack /\ updated = <<>> /\ changelog_text = <<>>) =>
       /\ changelog_file # <<>>
       /\ git_log = <<>>
       /\ posted = NoPost

(***************************************************************************)
(* C11: in a non-empty updated document every token is copied verbatim and *)
(* in the original order, except the rewritten ones: the 'unreleased_link' *)
(* tokens and the Unreleased heading -- as stated, the single heading that *)
(* started the section; as amended, every 'unreleased' token that          *)
(* satisfies the start condition.                                          *)
(***************************************************************************)
IsLink(k) == tokens[k].tt = "unreleased_link"

\* the updated document when only the heading that started the section and
\* the links are rewritten
OnlyFirstHeadingRewritten ==
    Flatten([k \in 1..Len(tokens) |->
                IF k = FirstStart THEN ExpectedHeading(tokens[k].tc)
                ELSE IF IsLink(k) THEN ExpectedLink(tokens[k].tc)
                ELSE tokens[k].tc])

\* the claim as stated
C11_OnlyFirstHeadingTouched ==
    (pc = "done" /\ result[2] # <<>>) => result[2] = OnlyFirstHeadingRewritten

\* as amended
C11_FrameOfUpdate ==
    /\ (Stepped /\ ~IsStart(idx) /\ ~IsLink(idx)) =>
          /\ tc = tokens[idx].tc
          /\ EndsWith(updated_markdown, tokens[idx].tc)
    /\ (pc = "done" /\ result[2] # <<>>) =>
          result[2] = Flatten([k \in 1..Len(tokens) |->
                                  IF IsStart(k) \/ IsLink(k)
                                  THEN ExpectedText(k)
                                  ELSE tokens[k].tc])

Wit_C11 ==
    /\ pc = "done"
    /\ markdown = L_Unreleased \o <<NL>> \o L_Sibling \o <<NL>> \o L_Prose
    /\ new_version = <<"1", ".", "2">>
    /\ result[2] = <<"#", "#", " ", "1", ".", "2", " ", "-", " ">> \o TodayIso
                      \o <<NL>> \o L_Sibling \o <<NL>> \o L_Prose

(***************************************************************************)
(* C12: commit_changes runs git add (project file), git add CHANGELOG.md,  *)
(* git commit, git tag, git push and the release POST in this order, each  *)
(* only after every earlier one succeeded; the POST is never issued unless *)
(* the push succeeded, and the method returns True only when the POST was  *)
(* answered with status 201.                                               *)
(***************************************************************************)
StepOrder ==
    << "git_add_project", "git_add_changelog", "git_commit", "git_tag",
       "git_push", "post" >>

CommandOrder == << "add", "add", "commit", "tag", "push" >>

C12_StepsInOrder ==
    /\ Len(git_log) <= Len(CommandOrder)
    /\ \A k \in 1..Len(git_log) : git_log[k].cmd = CommandOrder[k]
    /\ Len(git_log) >= 1 => git_log[1].arg = filename
    /\ Len(git_log) >= 2 => git_log[2].arg = "CHANGELOG.md"
    /\ \A k \in 1..Len(StepOrder) : rpc = StepOrder[k] => Len(git_log) = k - 1
    /\ posted # NoPost =>
          /\ Len(git_log) = Len(CommandOrder)
          /\ git_log[Len(git_log)].cmd = "push"
    /\ rpc = "raised" => (posted = NoPost /\ ret = "none")
    /\ (rpc = "returned" /\ ~dry_run) =>
          /\ posted # NoPost
          /\ ret = "True" <=> status_code = 201

Wit_C12 ==
    /\ rpc = "returned"
    /\ ~dry_run
    /\ ret = "True"
    /\ status_code = 201
    /\ Len(git_log) = Len(CommandOrder)
    /\ posted # NoPost

(***************************************************************************)
(* C13: the tag_name sent in the release POST is the name of the git tag   *)
(* commit_changes created and pushed: tag_prefix followed by               *)
(* release_version.                                                        *)
(***************************************************************************)
C13_PostedTagIsGitTag ==
    posted # NoPost =>
       /\ posted.tag_name = git_tag_prefix \o release_version
       /\ \E k \in 1..Len(git_log) :
             git_log[k].cmd = "tag" /\ git_log[k].arg = posted.tag_name

====
